---- MODULE Spec2Model ----
(***************************************************************************)
(* Model of the scatters word-placement program:                           *)
(*   - ScattersGenerator::generate_with_density and is_overlapping_tight   *)
(*     (src/src/scatters.rs), one action per step of the placement loop;   *)
(*   - WordBank::add_words / get_words / word_count and is_stop_word       *)
(*     (src/src/word_bank.rs).                                             *)
(* Words are ASCII strings, so String::len (a byte count) is Len.          *)
(* The density is an f32 in the code; here it is a number of tenths.  The  *)
(* densities drawn (0.1 and 6.0) and the canvas areas of the model give    *)
(* the same truncated base count in f32 as in exact arithmetic.            *)
(***************************************************************************)
EXTENDS Integers, Sequences, FiniteSets, TLC

VARIABLES
    word_pool,          \* ScattersGenerator.word_pool
    width, height,      \* arguments of generate_with_density
    density,            \* argument of generate_with_density, in tenths
    pc,                 \* position in generate_with_density
    count,              \* local `count`
    selected_words,     \* local `selected_words`
    i,                  \* position of the for loop in selected_words
    attempts,           \* local `attempts`
    placed,             \* local `placed`
    scattered_words,    \* local `scattered_words` (the returned Vec)
    occupied_positions, \* local `occupied_positions`
    fallback,           \* history: indices of scattered_words pushed by the fallback
    drawn,              \* history: candidate positions drawn for the current word
    words,              \* WordBank.words
    batch,              \* argument of the last add_words call
    added,              \* history: every token ever passed to add_words
    vocabulary,         \* the Vec returned by the last get_words call
    parse,              \* tokenizer run: [pc, text, tokens, again]
    dens,               \* density run: [density, prev, op, bar_width]
    sess,               \* one session of main(): the documents, the App, the terminal
    probe               \* one call of is_overlapping_tight: [pc, x, y, word, occupied, result]

genVars == <<word_pool, width, height, density, pc, count, selected_words, i,
             attempts, placed, scattered_words, occupied_positions, fallback, drawn>>
bankVars == <<words, batch, added, vocabulary>>
restVars == <<parse, dens, sess, probe>>
vars == <<word_pool, width, height, density, pc, count, selected_words, i,
          attempts, placed, scattered_words, occupied_positions, fallback, drawn,
          words, batch, added, vocabulary, parse, dens, sess, probe>>

(***************************************************************************)
(* Bounds of the model.                                                    *)
(***************************************************************************)
MaxWidth == 8
MaxNarrow == 4
MaxArea == 20
MaxPool == 3
MaxBatch == 2

(***************************************************************************)
(* Input sets.                                                             *)
(***************************************************************************)
PoolWords == <<"fox", "cat", "rust", "wonderful">>
DensityScale == 10
Densities == {1, 60}

Min(a, b) == IF a < b THEN a ELSE b
Max(a, b) == IF a > b THEN a ELSE b

\* Word pools: the first n words of PoolWords, for every n <= MaxPool.
Pools == {SubSeq(PoolWords, 1, n) : n \in 0..Min(MaxPool, Len(PoolWords))}

\* Canvases: the rows (height 0 or 1) up to MaxWidth cells wide, and the
\* canvases up to MaxNarrow cells wide of area <= MaxArea.
Canvases ==
    {c \in (0..MaxWidth) \X (0..MaxArea) :
        /\ c[1] * c[2] <= MaxArea
        /\ c[2] <= 1 \/ c[1] <= MaxNarrow}

(***************************************************************************)
(* u16 / i16 arithmetic.                                                   *)
(***************************************************************************)
U16 == 65536
AsU16(n) == n % U16
AddU16(a, b) == (a + b) % U16
SatSubU16(a, b) == IF a >= b THEN a - b ELSE 0
AsI16(n) == IF n >= 32768 THEN n - U16 ELSE n
\* i16 subtraction and abs as an optimized build computes them: wrapping
SubI16(a, b) == AsI16((a - b + U16) % U16)
AbsI16(n) == IF n = 0 - 32768 THEN n ELSE IF n < 0 THEN 0 - n ELSE n

WordLen(word) == AsU16(Len(word))

(***************************************************************************)
(* is_overlapping_tight                                                    *)
(***************************************************************************)
min_gap == 2

SpansConflict(x, word_len, ox, olen) ==
    LET x_end == AddU16(x, word_len)
        ox_end == AddU16(ox, olen)
    IN AddU16(x_end, min_gap) > ox /\ x < AddU16(ox_end, min_gap)

is_overlapping_tight_nogap(x, y, word, occupied) ==
    \E k \in 1..Len(occupied) :
        /\ y = occupied[k][2]
        /\ AddU16(x, WordLen(word)) > occupied[k][1]
        /\ x < AddU16(occupied[k][1], occupied[k][3])

is_overlapping_tight(x, y, word, occupied) ==
    \E k \in 1..Len(occupied) :
        LET ox == occupied[k][1]
            oy == occupied[k][2]
            olen == occupied[k][3]
        IN \/ y = oy /\ SpansConflict(x, WordLen(word), ox, olen)
           \/ /\ AbsI16(SubI16(AsI16(y), AsI16(oy))) <= 0
              /\ SpansConflict(x, WordLen(word), ox, olen)

(***************************************************************************)
(* The word count of generate_with_density.                                *)
(***************************************************************************)
canvas_area == width * height
base_count == Max((canvas_area * density) \div (40 * DensityScale), 2)
min_count == Max((base_count * 70) \div 100, 2)
max_count_rounded == Min((base_count * 130 + 50) \div 100, Len(word_pool))

max_count == Min((base_count * 130) \div 100, Len(word_pool))

CountsWholePool == {Len(word_pool)}

Counts ==
    IF min_count < max_count
    THEN min_count..max_count
    ELSE {Min(min_count, Len(word_pool))}

\* choose_multiple(amount) followed by shuffle: any sequence of
\* min(amount, len) elements of the pool at pairwise distinct indices.
SamplesWithReplacement(pool, amount) ==
    LET n == Min(amount, Len(pool))
    IN {[k \in 1..n |-> pool[s[k]]] : s \in [1..n -> 1..Len(pool)]}

Samples(pool, amount) ==
    LET n == Min(amount, Len(pool))
        Inj == {s \in [1..n -> 1..Len(pool)] :
                   \A a, b \in 1..n : a # b => s[a] # s[b]}
    IN {[k \in 1..n |-> pool[s[k]]] : s \in Inj}

(***************************************************************************)
(* The placement loop.                                                     *)
(***************************************************************************)
max_attempts_off_by_one == 100 + 1

max_attempts == 100

MaxXNoSub(word) == width

MaxX(word) == SatSubU16(width, WordLen(word))

FallbackStrict(word) == width > WordLen(word)

FallbackAlways(word) == TRUE

FallbackFits(word) == width >= WordLen(word)

CurWord == selected_words[i]

GenInit ==
    /\ word_pool \in Pools
    /\ \E c \in Canvases : width = c[1] /\ height = c[2]
    /\ density \in Densities
    /\ pc = "start"
    /\ count = 0
    /\ selected_words = <<>>
    /\ i = 0
    /\ attempts = 0
    /\ placed = FALSE
    /\ scattered_words = <<>>
    /\ occupied_positions = <<>>
    /\ fallback = {}
    /\ drawn = 0

BankIdle ==
    /\ words = {}
    /\ batch = <<>>
    /\ added = {}
    /\ vocabulary = <<>>

\* lines 25-55: count, sample, shuffle, and entry of the for loop
Generate ==
    /\ UNCHANGED <<bankVars, restVars>>
    /\ pc = "start"
    /\ \E c \in Counts :
        \E s \in Samples(word_pool, c) :
            /\ count' = c
            /\ selected_words' = s
            /\ pc' = IF s = <<>> THEN "done" ELSE "while"
            /\ i' = IF s = <<>> THEN 0 ELSE 1
    /\ attempts' = 0
    /\ placed' = FALSE
    /\ scattered_words' = <<>>
    /\ occupied_positions' = <<>>
    /\ fallback' = {}
    /\ drawn' = 0
    /\ UNCHANGED <<word_pool, width, height, density>>

\* lines 57-62: the while condition fails, or max_x == 0 breaks
WhileExit ==
    /\ UNCHANGED <<bankVars, restVars>>
    /\ pc = "while"
    /\ attempts >= max_attempts \/ MaxX(CurWord) = 0
    /\ pc' = "fallback"
    /\ UNCHANGED <<word_pool, width, height, density, count, selected_words, i,
                   attempts, placed, scattered_words, occupied_positions,
                   fallback, drawn>>

\* lines 64-78: one candidate position, accepted or rejected
WhileDraw ==
    /\ UNCHANGED <<bankVars, restVars>>
    /\ pc = "while"
    /\ attempts < max_attempts
    /\ MaxX(CurWord) # 0
    /\ height > 0
    /\ \E x \in 0..MaxX(CurWord), y \in 0..(height - 1) :
        IF ~is_overlapping_tight(x, y, CurWord, occupied_positions)
        THEN /\ occupied_positions' =
                    Append(occupied_positions, <<x, y, WordLen(CurWord)>>)
             /\ scattered_words' =
                    Append(scattered_words, [word |-> CurWord, x |-> x, y |-> y])
             /\ placed' = TRUE
             /\ pc' = "fallback"
             /\ attempts' = attempts
        ELSE /\ attempts' = attempts + 1
             /\ UNCHANGED <<occupied_positions, scattered_words, placed, pc>>
    /\ drawn' = drawn + 1
    /\ UNCHANGED <<word_pool, width, height, density, count, selected_words, i,
                   fallback>>

\* line 65 with height == 0: gen_range over the empty range 0..0 panics
WhilePanic ==
    /\ UNCHANGED <<bankVars, restVars>>
    /\ pc = "while"
    /\ attempts < max_attempts
    /\ MaxX(CurWord) # 0
    /\ height = 0
    /\ pc' = "panic"
    /\ drawn' = drawn + 1
    /\ UNCHANGED <<word_pool, width, height, density, count, selected_words, i,
                   attempts, placed, scattered_words, occupied_positions,
                   fallback>>

\* lines 82-91 taken: the unchecked fallback placement
FallbackPlace ==
    /\ UNCHANGED <<bankVars, restVars>>
    /\ pc = "fallback"
    /\ ~placed
    /\ FallbackFits(CurWord)
    /\ height > 0
    /\ \E x \in (IF MaxX(CurWord) > 0 THEN 0..MaxX(CurWord) ELSE {0}),
          y \in 0..(height - 1) :
        scattered_words' =
            Append(scattered_words, [word |-> CurWord, x |-> x, y |-> y])
    /\ fallback' = fallback \cup {Len(scattered_words) + 1}
    /\ i' = i + 1
    /\ pc' = IF i + 1 > Len(selected_words) THEN "done" ELSE "while"
    /\ attempts' = 0
    /\ placed' = FALSE
    /\ drawn' = 0
    /\ UNCHANGED <<word_pool, width, height, density, count, selected_words,
                   occupied_positions>>

\* line 85 with height == 0: gen_range over the empty range 0..0 panics
FallbackPanic ==
    /\ UNCHANGED <<bankVars, restVars>>
    /\ pc = "fallback"
    /\ ~placed
    /\ FallbackFits(CurWord)
    /\ height = 0
    /\ pc' = "panic"
    /\ drawn' = drawn + 1
    /\ UNCHANGED <<word_pool, width, height, density, count, selected_words, i,
                   attempts, placed, scattered_words, occupied_positions,
                   fallback>>

\* line 82 not taken: the word was placed by the loop, or it cannot fit
FallbackSkip ==
    /\ UNCHANGED <<bankVars, restVars>>
    /\ pc = "fallback"
    /\ placed \/ ~FallbackFits(CurWord)
    /\ i' = i + 1
    /\ pc' = IF i + 1 > Len(selected_words) THEN "done" ELSE "while"
    /\ attempts' = 0
    /\ placed' = FALSE
    /\ drawn' = 0
    /\ UNCHANGED <<word_pool, width, height, density, count, selected_words,
                   scattered_words, occupied_positions, fallback>>

\* The tokenizer, the density run and the session are not running.
RestIdle ==
    /\ parse = [pc |-> "idle"]
    /\ dens = [pc |-> "idle"]
    /\ sess = [pc |-> "idle"]
    /\ probe = [pc |-> "idle"]

\* The generator is not running (word bank specification).
GenIdle ==
    /\ word_pool = <<>>
    /\ width = 0
    /\ height = 0
    /\ density = 10
    /\ pc = "idle"
    /\ count = 0
    /\ selected_words = <<>>
    /\ i = 0
    /\ attempts = 0
    /\ placed = FALSE
    /\ scattered_words = <<>>
    /\ occupied_positions = <<>>
    /\ fallback = {}
    /\ drawn = 0

Init == GenInit /\ BankIdle /\ RestIdle

Next ==
    \/ Generate
    \/ WhileExit
    \/ WhileDraw
    \/ WhilePanic
    \/ FallbackPlace
    \/ FallbackPanic
    \/ FallbackSkip

Spec == Init /\ [][Next]_vars

(***************************************************************************)
(* WordBank                                                                *)
(***************************************************************************)
STOP_WORDS ==
    {"the", "be", "to", "of", "and", "a", "in", "that", "have", "i", "it", "for", "not", "on",
     "with", "he", "as", "you", "do", "at", "this", "but", "his", "by", "from", "they", "we",
     "say", "her", "she", "or", "an", "will", "my", "one", "all", "would", "there", "their",
     "what", "so", "up", "out", "if", "about", "who", "get", "which", "go", "me", "when",
     "make", "can", "like", "time", "no", "just", "him", "know", "take", "people", "into",
     "year", "your", "good", "some", "could", "them", "see", "other", "than", "then", "now",
     "look", "only", "come", "its", "over", "think", "also", "back", "after", "use", "two",
     "how", "our", "work", "first", "well", "way", "even", "new", "want", "because", "any",
     "these", "give", "day", "most", "us", "is", "was", "are", "been", "has", "had", "were",
     "said", "did", "having", "may", "should", "am", "being", "does"}

is_stop_word_never(word) == FALSE

is_stop_word(word) == word \in STOP_WORDS

\* Tokens passed to add_words: stop words, short words and admissible words.
BankTokens == {"the", "be", "hi", "fox", "hello"}

Batches == UNION {[1..n -> BankTokens] : n \in 0..MaxBatch}

\* the loop of add_words: one insert per admitted word, in order
RECURSIVE InsertAllReplacing(_, _)
InsertAllReplacing(set, ws) ==
    IF ws = <<>> THEN set
    ELSE InsertAllReplacing(
             IF ~is_stop_word(Head(ws)) /\ Len(Head(ws)) >= 3
             THEN {Head(ws)} ELSE set,
             Tail(ws))

RECURSIVE InsertAll(_, _)
InsertAll(set, ws) ==
    IF ws = <<>> THEN set
    ELSE InsertAll(
             IF ~is_stop_word(Head(ws)) /\ Len(Head(ws)) >= 3
             THEN set \cup {Head(ws)} ELSE set,
             Tail(ws))

word_count == Cardinality(words)

\* the Vecs that iterating the HashSet can produce: each element once, any order
get_words ==
    {s \in [1..Cardinality(words) -> words] :
        \A a, b \in 1..Cardinality(words) : a # b => s[a] # s[b]}

\* get_words on a given set of words
get_words_of(bank) ==
    {s \in [1..Cardinality(bank) -> bank] :
        \A a, b \in 1..Cardinality(bank) : a # b => s[a] # s[b]}

BankInit == GenIdle /\ BankIdle /\ RestIdle

add_words ==
    /\ UNCHANGED <<genVars, restVars>>
    /\ \E ws \in Batches :
        /\ words' = InsertAll(words, ws)
        /\ batch' = ws
        /\ added' = added \cup {ws[k] : k \in 1..Len(ws)}
    /\ UNCHANGED vocabulary

GetWords ==
    /\ UNCHANGED <<genVars, restVars>>
    /\ vocabulary' \in get_words
    /\ UNCHANGED <<words, batch, added>>

BankNext == add_words \/ GetWords

BankSpec == BankInit /\ [][BankNext]_vars

(***************************************************************************)
(* parser.rs: extract_words.  A text is a sequence of Unicode code points. *)
(***************************************************************************)
MaxText == 3

\* space, '-', '1', 'A', 'a', and U+0130 (capital I with dot above)
TextChars == {32, 45, 49, 65, 97, 304}

Texts == UNION {[1..n -> TextChars] : n \in 0..MaxText}

\* char::is_whitespace: the code points with the White_Space property
WhiteSpace ==
    (9..13) \cup {32, 133, 160, 5760} \cup (8192..8202)
            \cup {8232, 8233, 8239, 8287, 12288}

IsWhitespace(c) == c \in WhiteSpace

\* char::is_alphanumeric on ASCII and on the two non-ASCII code points of the
\* model: U+0130 is a letter, U+0307 (combining dot above) is a mark.
IsAlphanumeric(c) ==
    \/ c \in 48..57
    \/ c \in 65..90
    \/ c \in 97..122
    \/ c = 304

\* char::to_lowercase: U+0130 lowercases to the two code points 'i' U+0307
LowerOfChar(c) ==
    IF c \in 65..90 THEN <<c + 32>>
    ELSE IF c = 304 THEN <<105, 775>>
    ELSE <<c>>

\* str::split_whitespace: the maximal runs of non-whitespace, in order
RECURSIVE SplitFrom(_, _, _)
SplitFrom(text, cur, acc) ==
    IF text = <<>>
    THEN IF cur = <<>> THEN acc ELSE Append(acc, cur)
    ELSE IF IsWhitespace(Head(text))
         THEN SplitFrom(Tail(text), <<>>,
                        IF cur = <<>> THEN acc ELSE Append(acc, cur))
         ELSE SplitFrom(Tail(text), Append(cur, Head(text)), acc)

split_whitespace(text) == SplitFrom(text, <<>>, <<>>)

RECURSIVE TrimStart(_)
TrimStart(w) ==
    IF w = <<>> \/ IsAlphanumeric(Head(w)) THEN w ELSE TrimStart(Tail(w))

RECURSIVE TrimEnd(_)
TrimEnd(w) ==
    IF w = <<>> \/ IsAlphanumeric(w[Len(w)]) THEN w
    ELSE TrimEnd(SubSeq(w, 1, Len(w) - 1))

trim_matches_start_only(w) == TrimStart(w)

\* word.trim_matches(|c| !c.is_alphanumeric())
trim_matches(w) == TrimEnd(TrimStart(w))

\* str::to_lowercase (the model's alphabet has no capital sigma)
RECURSIVE to_lowercase(_)
to_lowercase(w) ==
    IF w = <<>> THEN <<>> ELSE LowerOfChar(Head(w)) \o to_lowercase(Tail(w))

NonEmpty(w) == w # <<>>

extract_words(text) ==
    LET pieces == split_whitespace(text)
        mapped == [k \in 1..Len(pieces) |-> to_lowercase(trim_matches(pieces[k]))]
    IN SelectSeq(mapped, NonEmpty)

ParseInit ==
    /\ GenIdle /\ BankIdle
    /\ dens = [pc |-> "idle"]
    /\ sess = [pc |-> "idle"]
    /\ probe = [pc |-> "idle"]
    /\ \E t \in Texts :
        parse = [pc |-> "text", text |-> t, tokens |-> <<>>, again |-> <<>>]

\* extract_words(text)
Tokenize ==
    /\ parse.pc = "text"
    /\ parse' = [parse EXCEPT !.pc = "tokens",
                              !.tokens = extract_words(parse.text)]
    /\ UNCHANGED <<genVars, bankVars, dens, sess, probe>>

\* extract_words applied to every token of the result
Retokenize ==
    /\ parse.pc = "tokens"
    /\ parse' = [parse EXCEPT !.pc = "again",
                              !.again = [k \in 1..Len(parse.tokens) |->
                                            extract_words(parse.tokens[k])]]
    /\ UNCHANGED <<genVars, bankVars, dens, sess, probe>>

ParseNext == Tokenize \/ Retokenize

ParseSpec == ParseInit /\ [][ParseNext]_vars

(***************************************************************************)
(* parser.rs: parse_markdown over the events of the markdown parser.       *)
(***************************************************************************)
MaxMdEvents == 4

\* The text of a text run, of inline code or of a line of a code block
MdTexts == {<<97>>, <<65, 45, 49>>, <<49>>}

\* Event::Start(Tag::CodeBlock), Event::End(TagEnd::CodeBlock), Event::Text,
\* Event::Code, and any other event (paragraph and emphasis tags, breaks,
\* raw HTML)
MdEvents ==
    {[kind |-> k, text |-> <<>>] : k \in {"start_code", "end_code", "other"}}
    \cup {[kind |-> k, text |-> t] : k \in {"text", "code"}, t \in MdTexts}

\* The events before position k leave a code block open.
RECURSIVE OpenBefore(_, _)
OpenBefore(events, k) ==
    IF k <= 1 THEN FALSE
    ELSE IF events[k - 1].kind = "start_code" THEN TRUE
    ELSE IF events[k - 1].kind = "end_code" THEN FALSE
    ELSE OpenBefore(events, k - 1)

\* Event streams as the markdown parser emits them: code blocks do not nest,
\* every one is closed, and only text events occur inside one.
MdStreams ==
    {ev \in UNION {[1..n -> MdEvents] : n \in 0..MaxMdEvents} :
        /\ \A k \in 1..Len(ev) :
              IF OpenBefore(ev, k)
              THEN ev[k].kind \in {"text", "end_code"}
              ELSE ev[k].kind # "end_code"
        /\ ~OpenBefore(ev, Len(ev) + 1)}

md_event_unguarded(state, event) ==
    CASE event.kind = "start_code" -> [state EXCEPT !.in_code_block = TRUE]
      [] event.kind = "end_code" -> [state EXCEPT !.in_code_block = FALSE]
      [] event.kind \in {"text", "code"} ->
            [state EXCEPT !.text_content = state.text_content \o event.text \o <<32>>]
      [] OTHER -> state

\* lines 32-41: the match on one event
md_event(state, event) ==
    CASE event.kind = "start_code" -> [state EXCEPT !.in_code_block = TRUE]
      [] event.kind = "end_code" -> [state EXCEPT !.in_code_block = FALSE]
      [] event.kind \in {"text", "code"} /\ ~state.in_code_block ->
            [state EXCEPT !.text_content = state.text_content \o event.text \o <<32>>]
      [] OTHER -> state

MdInit ==
    /\ GenIdle /\ BankIdle
    /\ dens = [pc |-> "idle"]
    /\ sess = [pc |-> "idle"]
    /\ probe = [pc |-> "idle"]
    /\ \E ev \in MdStreams :
        parse = [pc |-> "events", events |-> ev, k |-> 1,
                 in_code_block |-> FALSE, text_content |-> <<>>,
                 tokens |-> <<>>]

\* one iteration of `for event in parser`
MdEvent ==
    /\ parse.pc = "events"
    /\ parse.k <= Len(parse.events)
    /\ parse' = [md_event(parse, parse.events[parse.k]) EXCEPT !.k = parse.k + 1]
    /\ UNCHANGED <<genVars, bankVars, dens, sess, probe>>

\* line 43: Ok(extract_words(&text_content))
MdReturn ==
    /\ parse.pc = "events"
    /\ parse.k > Len(parse.events)
    /\ parse' = [parse EXCEPT !.pc = "returned",
                              !.tokens = extract_words(parse.text_content)]
    /\ UNCHANGED <<genVars, bankVars, dens, sess, probe>>

MdNext == MdEvent \/ MdReturn

MdSpec == MdInit /\ [][MdNext]_vars

(***************************************************************************)
(* parser.rs: strip_html_tags, character by character.                     *)
(***************************************************************************)
MaxHtml == 5

\* '<', '>', a letter and a space
HtmlChars == {60, 62, 97, 32}

HtmlInputs == UNION {[1..n -> HtmlChars] : n \in 0..MaxHtml}

strip_char_closing_only_in_tag(state, c) ==
    CASE c = 60 -> [state EXCEPT !.inside_tag = TRUE]
      [] c = 62 /\ state.inside_tag -> [state EXCEPT !.inside_tag = FALSE]
      [] ~state.inside_tag -> [state EXCEPT !.result = Append(state.result, c)]
      [] OTHER -> state

\* lines 70-75: the match on one character
strip_char(state, c) ==
    CASE c = 60 -> [state EXCEPT !.inside_tag = TRUE]
      [] c = 62 -> [state EXCEPT !.inside_tag = FALSE]
      [] ~state.inside_tag -> [state EXCEPT !.result = Append(state.result, c)]
      [] OTHER -> state

StripInit ==
    /\ GenIdle /\ BankIdle
    /\ dens = [pc |-> "idle"]
    /\ sess = [pc |-> "idle"]
    /\ probe = [pc |-> "idle"]
    /\ \E html \in HtmlInputs :
        parse = [pc |-> "chars", html |-> html, k |-> 1,
                 inside_tag |-> FALSE, result |-> <<>>]

\* one iteration of `for c in html.chars()`
StripChar ==
    /\ parse.pc = "chars"
    /\ parse.k <= Len(parse.html)
    /\ parse' = [strip_char(parse, parse.html[parse.k]) EXCEPT !.k = parse.k + 1]
    /\ UNCHANGED <<genVars, bankVars, dens, sess, probe>>

\* line 78: result
StripReturn ==
    /\ parse.pc = "chars"
    /\ parse.k > Len(parse.html)
    /\ parse' = [parse EXCEPT !.pc = "stripped"]
    /\ UNCHANGED <<genVars, bankVars, dens, sess, probe>>

StripNext == StripChar \/ StripReturn

StripSpec == StripInit /\ [][StripNext]_vars

(***************************************************************************)
(* ui.rs: the density of the App, an f32.  A value is held as an integer   *)
(* number of units of 2^-27, which is exact for every f32 in [2^-4, 16).   *)
(***************************************************************************)
MaxBarWidth == 5
MaxOps == 4

BarWidths == 0..MaxBarWidth

F32Unit == 134217728        \* 1.0f32 = 2^27 units
F32_0_1 == 13421773         \* 0.1f32 = 13421773 * 2^-27
F32_6_0 == 6 * F32Unit      \* 6.0f32

\* The distance between neighbouring f32 values at v: 24 significant bits
RECURSIVE Ulp(_)
Ulp(v) == IF v < 16777216 THEN 1 ELSE 2 * Ulp(v \div 2)

\* Rounding of the exact value q + r/d (0 <= r < d) to the nearest f32, ties
\* to the even significand
RoundF32(q, r, d) ==
    LET u == Ulp(q)
        lo == (q \div u) * u
        rest == (q % u) * d + r
    IN IF 2 * rest > u * d \/ (2 * rest = u * d /\ (q \div u) % 2 = 1)
       THEN lo + u
       ELSE lo

F32Sub(a, b) == RoundF32(a - b, 0, 1)
F32Add(a, b) == RoundF32(a + b, 0, 1)
F32Div(a, n) == RoundF32(a \div n, a % n, n)

\* (6.0 - 0.1): the f32 difference of the two literals, 5.9000001
DensitySpan == F32Sub(F32_6_0, F32_0_1)

density_per_pixel_floor8(bar_width) == F32Div(DensitySpan, Max(bar_width, 8))

\* (6.0 - 0.1) / bar_width.max(1) as f32
density_per_pixel(bar_width) == F32Div(DensitySpan, Max(bar_width, 1))

increased_unclamped(density_, bar_width) ==
    F32Add(density_, density_per_pixel(bar_width))

\* (self.density + density_per_pixel).min(6.0)
increased(density_, bar_width) ==
    Min(F32Add(density_, density_per_pixel(bar_width)), F32_6_0)

\* (self.density - density_per_pixel).max(0.1); a difference below 0.1
\* (negative ones included) is replaced by 0.1, whatever it rounds to
decreased(density_, bar_width) ==
    LET d == density_ - density_per_pixel(bar_width)
    IN IF d < F32_0_1 THEN F32_0_1 ELSE Max(RoundF32(d, 0, 1), F32_0_1)

\* Binary long division: q = floor(n * 2^k / d) and r the remainder, taken
\* to 25 significant bits
RECURSIVE RatioBitsFrom(_, _, _, _)
RatioBitsFrom(q, r, k, d) ==
    IF q >= 16777216 THEN [q |-> q, r |-> r, k |-> k]
    ELSE IF 2 * r >= d THEN RatioBitsFrom(2 * q + 1, 2 * r - d, k + 1, d)
    ELSE RatioBitsFrom(2 * q, 2 * r, k + 1, d)

\* The f32 quotient n / d of two f32 values (0 < n), as m * 2^-e with m of at
\* most 24 bits: nearest, ties to the even significand
F32Ratio(n, d) ==
    LET b == RatioBitsFrom(n \div d, n % d, 0, d)
        half == b.q \div 2
        up == b.q % 2 = 1 /\ (b.r # 0 \/ half % 2 = 1)
    IN [m |-> IF up THEN half + 1 ELSE half, e |-> b.k - 1]

RECURSIVE Pow2(_)
Pow2(e) == IF e = 0 THEN 1 ELSE 2 * Pow2(e - 1)

\* The bar widths of render_sidebar: the density section is at most the 20
\* columns of the sidebar, less its border, and at least 8
RenderBarWidths == 8..18

\* ui.rs lines 428-429: density_ratio = (density - 0.1) / (6.0 - 0.1) and
\* (density_ratio * bar_width as f32) as usize; the cast truncates and turns
\* a negative value into 0
filled_width(density_, bar_width) ==
    LET numerator == F32Sub(density_, F32_0_1)
        ratio == F32Ratio(numerator, DensitySpan)
        product == RoundF32(ratio.m * bar_width, 0, 1)
    IN IF numerator <= 0 \/ ratio.e >= 30 THEN 0
       ELSE product \div Pow2(ratio.e)

DensityInit ==
    /\ GenIdle /\ BankIdle
    /\ parse = [pc |-> "idle"]
    /\ sess = [pc |-> "idle"]
    /\ probe = [pc |-> "idle"]
    /\ dens = [pc |-> "run", density |-> F32Unit, prev |-> F32Unit,
               op |-> "new", bar_width |-> 0, ops |-> 0]

\* App::increase_density(bar_width)
increase_density ==
    /\ dens.pc = "run"
    /\ dens.ops < MaxOps
    /\ \E bar_width \in BarWidths :
        dens' = [dens EXCEPT
                    !.density = increased(dens.density, bar_width),
                    !.prev = dens.density,
                    !.op = "increase",
                    !.bar_width = bar_width,
                    !.ops = dens.ops + 1]
    /\ UNCHANGED <<genVars, bankVars, parse, sess, probe>>

\* App::decrease_density(bar_width)
decrease_density ==
    /\ dens.pc = "run"
    /\ dens.ops < MaxOps
    /\ \E bar_width \in BarWidths :
        dens' = [dens EXCEPT
                    !.density = decreased(dens.density, bar_width),
                    !.prev = dens.density,
                    !.op = "decrease",
                    !.bar_width = bar_width,
                    !.ops = dens.ops + 1]
    /\ UNCHANGED <<genVars, bankVars, parse, sess, probe>>

DensityNext == increase_density \/ decrease_density

DensitySpec == DensityInit /\ [][DensityNext]_vars

(***************************************************************************)
(* generate_with_density as a function of its arguments: every result the  *)
(* random draws of one call can produce (scatters.rs lines 19-95).         *)
(***************************************************************************)
Returned(placements) == [panic |-> FALSE, words |-> placements]
Panicked == [panic |-> TRUE, words |-> <<>>]

\* line 26-27: base_count for an f32 density d (in units of 2^-27); the
\* product is enclosed, not rounded, so more than one value can come out
BaseCounts(area, d) ==
    LET c == d \div 4096
    IN {Max(b, 2) : b \in ((area * (c - 1)) \div 1310720)
                           ..((area * (c + 2)) \div 1310720)}

\* lines 29-36
CountsFor(n, base) ==
    LET lo == Max((base * 70) \div 100, 2)
        hi == Min((base * 130) \div 100, n)
    IN IF lo < hi THEN lo..hi ELSE {Min(lo, n)}

\* lines 57-92 for the words selected[k..], given what is placed so far
RECURSIVE PlaceFrom(_, _, _, _, _, _)
PlaceFrom(selected, k, w, h, placements, occupied) ==
    IF k > Len(selected) THEN {Returned(placements)}
    ELSE
    LET word == selected[k]
        max_x == SatSubU16(w, WordLen(word))
        at(x, y) == Append(placements, [word |-> word, x |-> x, y |-> y])
        cells == (0..max_x) \X (0..(h - 1))
        free == {p \in cells :
                    ~is_overlapping_tight(p[1], p[2], word, occupied)}
    IN IF max_x = 0
       THEN \* line 60: break; the fallback when the word is as wide as w
            IF w >= WordLen(word)
            THEN IF h = 0 THEN {Panicked}
                 ELSE UNION {PlaceFrom(selected, k + 1, w, h, at(0, y), occupied) :
                                y \in 0..(h - 1)}
            ELSE PlaceFrom(selected, k + 1, w, h, placements, occupied)
       ELSE IF h = 0 THEN {Panicked}
       ELSE (UNION {PlaceFrom(selected, k + 1, w, h, at(p[1], p[2]),
                              Append(occupied, <<p[1], p[2], WordLen(word)>>)) :
                       p \in free})
            \cup
            \* 100 draws, each on an overlapping cell, then the fallback
            (IF free = cells THEN {}
             ELSE UNION {PlaceFrom(selected, k + 1, w, h, at(p[1], p[2]),
                                   occupied) : p \in cells})

generate_with_density(pool, w, h, d) ==
    UNION {PlaceFrom(selected, 1, w, h, <<>>, <<>>) :
              selected \in UNION {Samples(pool, amount) :
                  amount \in UNION {CountsFor(Len(pool), base) :
                      base \in BaseCounts(w * h, d)}}}

(***************************************************************************)
(* main.rs: one session.  main() ingests one file or the entries of one    *)
(* directory into a WordBank, refuses an empty vocabulary, generates the   *)
(* first placements and hands the App to run_app.                          *)
(***************************************************************************)
MaxDocs == 2
MaxEvents == 4

\* What parse_file would extract from a document's text.
DocWords == {<<>>, <<"the">>, <<"fox">>, <<"wonderful", "the">>}

\* A directory entry or the single input file: whether its extension is one
\* of txt, md, markdown, epub, whether reading it fails, and its words.
Documents ==
    {[supported |-> FALSE, fails |-> FALSE, words |-> <<>>]}
    \cup {[supported |-> TRUE, fails |-> f, words |-> t] :
             f \in BOOLEAN, t \in DocWords}

DocLists == UNION {[1..n -> Documents] : n \in 0..MaxDocs}

\* Terminal sizes <<columns, rows>>
TermSizes == {6, 11} \X {2, 3}

parse_file_lossy(doc) == [ok |-> TRUE, words |-> doc.words]

\* parser::parse_file: Err as soon as the file cannot be read (the `?` of
\* lines 20, 25, 49), before any word is extracted; otherwise Ok(words)
parse_file(doc) ==
    IF doc.fails THEN [ok |-> FALSE, words |-> <<>>]
    ELSE [ok |-> TRUE, words |-> doc.words]

no_words_found_never(bank) == FALSE

\* main.rs line 185: word_bank.word_count() == 0
no_words_found(bank) == Cardinality(bank) = 0

\* App::new(Vec::new(), ..) before the first placements exist
NoApp ==
    [scattered_words |-> <<>>, selected_word_index |-> 0,
     highlighted_words |-> <<0>>, density |-> F32Unit,
     use_dimmed_current |-> FALSE, fullscreen_mode |-> FALSE,
     word_count |-> 0, directory |-> "none"]

SessInit ==
    /\ GenIdle /\ BankIdle
    /\ parse = [pc |-> "idle"]
    /\ dens = [pc |-> "idle"]
    /\ probe = [pc |-> "idle"]
    /\ \E mode \in {"file", "dir"}, docs \in DocLists, size \in TermSizes :
        /\ mode = "file" => Len(docs) = 1
        /\ sess = [pc |-> "ingest", mode |-> mode, docs |-> docs, k |-> 1,
                   bank |-> {}, before |-> {}, file_count |-> 0,
                   ingested |-> FALSE, generated |-> <<>>,
                   warned |-> {}, fatal |-> "none", size |-> size,
                   word_pool |-> <<>>, generate_calls |-> 0,
                   generate_density |-> 0, app |-> NoApp, frame |-> {},
                   last |-> "none", rerolls |-> 0, events |-> 0]

\* lines 107-138: the single input file
IngestFile ==
    /\ sess.pc = "ingest"
    /\ sess.mode = "file"
    /\ LET doc == sess.docs[1]
           res == parse_file(doc)
       IN IF doc.supported /\ res.ok
          THEN sess' = [sess EXCEPT !.pc = "check", !.k = 2,
                                    !.ingested = TRUE,
                                    !.before = sess.bank,
                                    !.bank = InsertAll(sess.bank, res.words),
                                    !.file_count = sess.file_count + 1]
          ELSE sess' = [sess EXCEPT !.pc = "exit_error", !.k = 2,
                                    !.before = sess.bank,
                                    !.fatal = IF doc.supported THEN "parse"
                                              ELSE "unsupported"]
    /\ UNCHANGED <<genVars, bankVars, parse, dens, probe>>

IngestEntryAborting ==
    /\ sess.pc = "ingest"
    /\ sess.mode = "dir"
    /\ sess.k <= Len(sess.docs)
    /\ LET doc == sess.docs[sess.k]
           res == parse_file(doc)
       IN IF ~doc.supported
          THEN sess' = [sess EXCEPT !.k = sess.k + 1, !.before = sess.bank]
          ELSE IF res.ok
          THEN sess' = [sess EXCEPT !.k = sess.k + 1,
                                    !.before = sess.bank,
                                    !.bank = InsertAll(sess.bank, res.words),
                                    !.file_count = sess.file_count + 1]
          ELSE sess' = [sess EXCEPT !.k = Len(sess.docs) + 1,
                                    !.before = sess.bank,
                                    !.warned = sess.warned \cup {sess.k}]
    /\ UNCHANGED <<genVars, bankVars, parse, dens, probe>>

\* lines 143-172: one entry of the directory
IngestEntry ==
    /\ sess.pc = "ingest"
    /\ sess.mode = "dir"
    /\ sess.k <= Len(sess.docs)
    /\ LET doc == sess.docs[sess.k]
           res == parse_file(doc)
       IN IF ~doc.supported
          THEN sess' = [sess EXCEPT !.k = sess.k + 1, !.before = sess.bank]
          ELSE IF res.ok
          THEN sess' = [sess EXCEPT !.k = sess.k + 1,
                                    !.before = sess.bank,
                                    !.bank = InsertAll(sess.bank, res.words),
                                    !.file_count = sess.file_count + 1]
          ELSE sess' = [sess EXCEPT !.k = sess.k + 1,
                                    !.before = sess.bank,
                                    !.warned = sess.warned \cup {sess.k}]
    /\ UNCHANGED <<genVars, bankVars, parse, dens, probe>>

\* lines 143-144: read_dir or an entry of it fails and main returns the error
ReadDirError ==
    /\ sess.pc = "ingest"
    /\ sess.mode = "dir"
    /\ sess' = [sess EXCEPT !.pc = "exit_error", !.fatal = "io"]
    /\ UNCHANGED <<genVars, bankVars, parse, dens, probe>>

\* the for loop of line 143 ends
ScanDone ==
    /\ sess.pc = "ingest"
    /\ sess.mode = "dir"
    /\ sess.k > Len(sess.docs)
    /\ sess' = [sess EXCEPT !.pc = "check", !.ingested = TRUE]
    /\ UNCHANGED <<genVars, bankVars, parse, dens, probe>>

\* lines 185-188; the session goes on with the word bank alone, the input
\* path, its entries and file_count are not read again
CheckWords ==
    /\ sess.pc = "check"
    /\ IF no_words_found(sess.bank)
       THEN sess' = [sess EXCEPT !.pc = "exit_error", !.fatal = "no_words"]
       ELSE sess' = [sess EXCEPT !.pc = "setup", !.docs = <<>>, !.k = 1,
                                 !.before = {}, !.warned = {},
                                 !.file_count = 0]
    /\ UNCHANGED <<genVars, bankVars, parse, dens, probe>>

\* lines 198-217: the terminal cannot be set up, or the theme is unknown
SetupError ==
    /\ sess.pc = "setup"
    /\ sess' = [sess EXCEPT !.pc = "exit_error", !.fatal = "setup"]
    /\ UNCHANGED <<genVars, bankVars, parse, dens, probe>>

(***************************************************************************)
(* main.rs / ui.rs: the terminal session (run_app, App, rendering).        *)
(***************************************************************************)
\* ui.rs line 107
density_width == 20

\* calculate_sidebar_width_for_app: the content width is at least
\* density_width, and the result is capped at 20
calculate_sidebar_width_for_app == Min(density_width + 6, 20)

\* main.rs lines 224-225 and 276-282
canvas_width_of(size, fullscreen_mode) ==
    IF fullscreen_mode THEN SatSubU16(size[1], 2)
    ELSE SatSubU16(SatSubU16(size[1], calculate_sidebar_width_for_app), 2)

canvas_height_of(size) == SatSubU16(size[2], 2)

\* ui.rs lines 91-95
get_density_bar_width(terminal_width) ==
    LET sidebar_width == AsU16(terminal_width * 25) \div 100
        section_width == SatSubU16(sidebar_width, 2)
    IN Max(SatSubU16(section_width, 2), 8)

\* The words drawn by render_canvas (ui.rs lines 612-672): the inner area is
\* the canvas area without its border; index is the 0-based Vec index.
Frame(app, size) ==
    LET inner_width == canvas_width_of(size, app.fullscreen_mode)
        inner_height == canvas_height_of(size)
        style(index) ==
            IF app.selected_word_index = index
            THEN IF app.use_dimmed_current THEN "selected" ELSE "current"
            ELSE IF \E h \in 1..Len(app.highlighted_words) :
                        app.highlighted_words[h] = index
                 THEN "selected"
                 ELSE "text"
    IN IF inner_width = 0 \/ inner_height = 0 THEN {}
       ELSE {[index |-> n - 1,
              x |-> Min(app.scattered_words[n].x, inner_width - 1),
              y |-> Min(app.scattered_words[n].y, inner_height - 1),
              width |-> Min(Len(app.scattered_words[n].word),
                            inner_width - Min(app.scattered_words[n].x,
                                              inner_width - 1)),
              style |-> style(n - 1)] : n \in 1..Len(app.scattered_words)}

Contains(vec, index) == \E h \in 1..Len(vec) : vec[h] = index

PushAlways(vec, index) == Append(vec, index)

\* ui.rs lines 54-56 and 69-71: push unless contains
PushIfAbsent(vec, index) ==
    IF Contains(vec, index) THEN vec ELSE Append(vec, index)

update_words_keeping_visited(app, scattered) ==
    [app EXCEPT !.scattered_words = scattered, !.selected_word_index = 0]

\* App::update_words (ui.rs lines 43-47)
update_words(app, scattered) ==
    [app EXCEPT !.scattered_words = scattered,
                !.selected_word_index = 0,
                !.highlighted_words = <<0>>]

HandledClamping(name, app) ==
    [sess EXCEPT !.app = [app EXCEPT !.scattered_words =
                             [n \in 1..Len(app.scattered_words) |->
                                 [app.scattered_words[n] EXCEPT
                                     !.x = Min(app.scattered_words[n].x,
                                               SatSubU16(canvas_width_of(sess.size,
                                                   app.fullscreen_mode), 1))]]],
                 !.frame = Frame(app, sess.size),
                 !.last = name, !.events = sess.events + 1]

\* One processed event of run_app's loop followed by terminal.draw (line 318)
Handled(name, app) ==
    [sess EXCEPT !.app = app, !.frame = Frame(app, sess.size),
                 !.last = name, !.events = sess.events + 1]

Running == sess.pc = "running" /\ sess.events < MaxEvents

\* main.rs lines 204-228 and 251: get_words in some order, the first
\* placements at density 1.0, App::new, the first draw
FirstGenerate ==
    /\ sess.pc = "setup"
    /\ \E pool \in get_words_of(sess.bank) :
       \E res \in generate_with_density(pool,
                      canvas_width_of(sess.size, FALSE),
                      canvas_height_of(sess.size), F32Unit) :
          LET called == [sess EXCEPT !.word_pool = pool,
                                     !.generate_calls = sess.generate_calls + 1,
                                     !.generate_density = F32Unit,
                                     !.generated = res.words]
              app == [NoApp EXCEPT !.scattered_words = res.words,
                                   !.word_count = Len(pool),
                                   !.directory = sess.mode]
          IN IF res.panic
             THEN sess' = [called EXCEPT !.pc = "panic", !.fatal = "generate"]
             ELSE sess' = [called EXCEPT !.pc = "running", !.app = app,
                                         !.frame = Frame(app, sess.size)]
    /\ UNCHANGED <<genVars, bankVars, parse, dens, probe>>

KeyNotPressedHandled ==
    /\ Running
    /\ sess' = [sess EXCEPT !.app.use_dimmed_current = ~sess.app.use_dimmed_current,
                            !.last = "ignored", !.events = sess.events + 1]
    /\ UNCHANGED <<genVars, bankVars, parse, dens, probe>>

\* lines 262-264: a key event that is no Press; the loop continues undrawn
KeyNotPressed ==
    /\ Running
    /\ sess' = [sess EXCEPT !.last = "ignored", !.events = sess.events + 1]
    /\ UNCHANGED <<genVars, bankVars, parse, dens, probe>>

\* lines 267-273: Ctrl+C, q, Q
Quit ==
    /\ Running
    /\ sess' = [sess EXCEPT !.pc = "exit_ok", !.last = "quit",
                            !.events = sess.events + 1]
    /\ UNCHANGED <<genVars, bankVars, parse, dens, probe>>

\* lines 274-285: r, R
Reroll ==
    /\ Running
    /\ \E res \in generate_with_density(sess.word_pool,
                      canvas_width_of(sess.size, sess.app.fullscreen_mode),
                      canvas_height_of(sess.size), sess.app.density) :
          LET called == [sess EXCEPT !.generate_calls = sess.generate_calls + 1,
                                     !.generate_density = sess.app.density,
                                     !.generated = res.words,
                                     !.last = "reroll",
                                     !.events = sess.events + 1]
              app == update_words(sess.app, res.words)
          IN IF res.panic
             THEN sess' = [called EXCEPT !.pc = "panic", !.fatal = "generate"]
             ELSE sess' = [called EXCEPT !.app = app,
                                         !.frame = Frame(app, sess.size),
                                         !.rerolls = sess.rerolls + 1]
    /\ UNCHANGED <<genVars, bankVars, parse, dens, probe>>

\* lines 286-288 and ui.rs lines 49-58: Right, Tab, n.  The remainder by
\* scattered_words.len() panics when the Vec is empty.
SelectNext ==
    /\ Running
    /\ IF Len(sess.app.scattered_words) = 0
       THEN sess' = [sess EXCEPT !.pc = "panic", !.fatal = "select_next_word",
                                 !.last = "next", !.events = sess.events + 1]
       ELSE LET next_index == (sess.app.selected_word_index + 1)
                                  % Len(sess.app.scattered_words)
            IN sess' = Handled("next",
                   [sess.app EXCEPT
                       !.selected_word_index = next_index,
                       !.highlighted_words =
                           PushIfAbsent(sess.app.highlighted_words, next_index)])
    /\ UNCHANGED <<genVars, bankVars, parse, dens, probe>>

\* lines 289-291 and ui.rs lines 60-73: Left, BackTab, p
SelectPrev ==
    /\ Running
    /\ LET prev_index ==
               IF sess.app.selected_word_index = 0
               THEN SatSubU16(Len(sess.app.scattered_words), 1)
               ELSE sess.app.selected_word_index - 1
       IN sess' = Handled("prev",
              [sess.app EXCEPT
                  !.selected_word_index = prev_index,
                  !.highlighted_words =
                      PushIfAbsent(sess.app.highlighted_words, prev_index)])
    /\ UNCHANGED <<genVars, bankVars, parse, dens, probe>>

\* lines 292-296: Up
DensityUp ==
    /\ Running
    /\ sess' = Handled("up",
           [sess.app EXCEPT !.density =
               increased(sess.app.density, get_density_bar_width(sess.size[1]))])
    /\ UNCHANGED <<genVars, bankVars, parse, dens, probe>>

\* lines 297-301: Down
DensityDown ==
    /\ Running
    /\ sess' = Handled("down",
           [sess.app EXCEPT !.density =
               decreased(sess.app.density, get_density_bar_width(sess.size[1]))])
    /\ UNCHANGED <<genVars, bankVars, parse, dens, probe>>

\* lines 302-304 and ui.rs lines 85-88: space
ToggleHighlight ==
    /\ Running
    /\ sess' = Handled("highlight",
           [sess.app EXCEPT !.use_dimmed_current = ~sess.app.use_dimmed_current])
    /\ UNCHANGED <<genVars, bankVars, parse, dens, probe>>

ToggleFullscreenRegenerating ==
    /\ Running
    /\ sess' = [Handled("fullscreen",
                    [sess.app EXCEPT !.fullscreen_mode = ~sess.app.fullscreen_mode])
                   EXCEPT !.generate_calls = sess.generate_calls + 1]
    /\ UNCHANGED <<genVars, bankVars, parse, dens, probe>>

\* lines 305-307: v, V
ToggleFullscreen ==
    /\ Running
    /\ sess' = Handled("fullscreen",
           [sess.app EXCEPT !.fullscreen_mode = ~sess.app.fullscreen_mode])
    /\ UNCHANGED <<genVars, bankVars, parse, dens, probe>>

\* lines 311-313: the terminal was resized; the next draw uses the new size
Resize ==
    /\ Running
    /\ \E size \in TermSizes :
        /\ size # sess.size
        /\ sess' = [sess EXCEPT !.size = size,
                                !.frame = Frame(sess.app, size),
                                !.last = "resize",
                                !.events = sess.events + 1]
    /\ UNCHANGED <<genVars, bankVars, parse, dens, probe>>

\* lines 308 and 314: any other key or event; only the draw happens
OtherEvent ==
    /\ Running
    /\ sess' = Handled("other", sess.app)
    /\ UNCHANGED <<genVars, bankVars, parse, dens, probe>>

\* lines 249, 253, 275, 293, 298, 318: the terminal fails and run_app
\* returns the error
TerminalError ==
    /\ Running
    /\ sess' = [sess EXCEPT !.pc = "exit_error", !.fatal = "io",
                            !.last = "error", !.events = sess.events + 1]
    /\ UNCHANGED <<genVars, bankVars, parse, dens, probe>>

SessNext ==
    \/ IngestFile \/ IngestEntry \/ ReadDirError \/ ScanDone \/ CheckWords
    \/ SetupError \/ FirstGenerate \/ KeyNotPressed \/ Quit \/ Reroll
    \/ SelectNext \/ SelectPrev \/ DensityUp \/ DensityDown
    \/ ToggleHighlight \/ ToggleFullscreen \/ Resize \/ OtherEvent
    \/ TerminalError

SessSpec == SessInit /\ [][SessNext]_vars

(***************************************************************************)
(* scatters.rs: is_overlapping_tight on arbitrary u16 arguments.  A build  *)
(* with overflow checks panics at the first overflowing operation, an      *)
(* optimized build wraps and goes on.                                      *)
(***************************************************************************)
MaxProbe == 3

\* Coordinates: the small ones and the ends of the i16 and u16 ranges
ProbeCoords == (0..MaxProbe) \cup {32767, 32768, 65532, 65535}

ProbeEntries == ProbeCoords \X ProbeCoords \X {3, 4}

ProbeOccupied ==
    {<<e>> : e \in ProbeEntries}
    \cup {<<e, f>> : e \in {<<0, 0, 3>>, <<1, 32768, 4>>}, f \in ProbeEntries}

\* lines 105-108 and 114-116: does one of the evaluated u16 operations
\* overflow?  ox_end + min_gap is evaluated only if the first comparison holds.
SpansOverflow(x, word_len, ox, olen) ==
    \/ x + word_len >= U16
    \/ ox + olen >= U16
    \/ AddU16(x, word_len) + min_gap >= U16
    \/ /\ AddU16(AddU16(x, word_len), min_gap) > ox
       /\ AddU16(ox, olen) + min_gap >= U16

\* line 113: does y as i16 - oy as i16, or its abs(), overflow?
RowOverflow(y, oy) ==
    LET d == AsI16(y) - AsI16(oy)
    IN d > 32767 \/ d <= 0 - 32768

\* Does the call overflow somewhere before it returns?  The entries are
\* visited in order until one of the two tests of an entry returns true.
RECURSIVE OverflowFrom(_, _, _, _, _)
OverflowFrom(k, x, y, word, occupied) ==
    IF k > Len(occupied) THEN FALSE
    ELSE
    LET ox == occupied[k][1]
        oy == occupied[k][2]
        olen == occupied[k][3]
        spans == SpansOverflow(x, WordLen(word), ox, olen)
        hit == SpansConflict(x, WordLen(word), ox, olen)
        close == AbsI16(SubI16(AsI16(y), AsI16(oy))) <= 0
    IN IF y = oy /\ hit THEN spans
       ELSE \/ y = oy /\ spans
            \/ RowOverflow(y, oy)
            \/ close /\ spans
            \/ ~(close /\ hit) /\ OverflowFrom(k + 1, x, y, word, occupied)

\* What a call can do: return its value, or panic where an operation overflows
Outcomes(x, y, word, occupied) ==
    {IF is_overlapping_tight(x, y, word, occupied) THEN "true" ELSE "false"}
    \cup (IF OverflowFrom(1, x, y, word, occupied) THEN {"panic"} ELSE {})

ProbeInit ==
    /\ GenIdle /\ BankIdle
    /\ parse = [pc |-> "idle"]
    /\ dens = [pc |-> "idle"]
    /\ sess = [pc |-> "idle"]
    /\ \E x \in ProbeCoords, y \in ProbeCoords, occupied \in ProbeOccupied :
        probe = [pc |-> "call", x |-> x, y |-> y, word |-> "fox",
                 occupied |-> occupied, result |-> "none"]

\* is_overlapping_tight(x, y, word, occupied) returns
OverlapReturns ==
    /\ probe.pc = "call"
    /\ probe' = [probe EXCEPT
                    !.pc = "returned",
                    !.result = IF is_overlapping_tight(probe.x, probe.y,
                                      probe.word, probe.occupied)
                               THEN "true" ELSE "false"]
    /\ UNCHANGED <<genVars, bankVars, parse, dens, sess>>

\* is_overlapping_tight(x, y, word, occupied) panics on an overflow
OverlapPanics ==
    /\ probe.pc = "call"
    /\ "panic" \in Outcomes(probe.x, probe.y, probe.word, probe.occupied)
    /\ probe' = [probe EXCEPT !.pc = "panic", !.result = "panic"]
    /\ UNCHANGED <<genVars, bankVars, parse, dens, sess>>

ProbeNext == OverlapReturns \/ OverlapPanics

ProbeSpec == ProbeInit /\ [][ProbeNext]_vars

(***************************************************************************)
(* Properties of generate_with_density (specification Spec).               *)
(***************************************************************************)
Placements == 1..Len(scattered_words)
Checked == Placements \ fallback
XEnd(p) == p.x + Len(p.word)

\* C1 (as stated): any two distinct placements on the same row, neither of
\* them placed by the fallback, have disjoint spans when EACH span is padded
\* by 2 cells on each side, i.e. [x - 2, x + len + 2) do not intersect.
C1_EachPaddedDisjoint ==
    \A a, b \in Checked :
        (a # b /\ scattered_words[a].y = scattered_words[b].y) =>
            \/ XEnd(scattered_words[a]) + 2 <= scattered_words[b].x - 2
            \/ XEnd(scattered_words[b]) + 2 <= scattered_words[a].x - 2

\* C1 (amended): any two distinct placements on the same row, neither of them
\* placed by the fallback, are separated by at least 2 free cells: one span
\* padded by 2 cells on each side does not intersect the other span.
C1_GapOfTwo ==
    \A a, b \in Checked :
        (a # b /\ scattered_words[a].y = scattered_words[b].y) =>
            \/ XEnd(scattered_words[a]) + 2 <= scattered_words[b].x
            \/ XEnd(scattered_words[b]) + 2 <= scattered_words[a].x

\* C1 witness: a finished call with two checked placements on one row.
C1_Witness ==
    /\ pc = "done"
    /\ \E a, b \in Checked :
        /\ a # b
        /\ scattered_words[a].y = scattered_words[b].y

AllSampledFit == \A k \in 1..Len(selected_words) : Len(selected_words[k]) <= width

\* C2: a returned placement sequence has at most min(vocabulary_size,
\* max_count) elements and, when every sampled word has length <= width, at
\* least min(min_count, vocabulary_size) elements.
C2_CountBounds ==
    pc = "done" =>
        /\ Len(scattered_words) <= Min(Len(word_pool), max_count)
        /\ AllSampledFit =>
               Len(scattered_words) >= Min(min_count, Len(word_pool))

\* C2 witness: a finished call on the randomized-count branch where every
\* sampled word fits and the result has more than min_count placements.
C2_Witness ==
    /\ pc = "done"
    /\ min_count < max_count
    /\ AllSampledFit
    /\ Len(scattered_words) = max_count
    /\ Len(scattered_words) > min_count

\* C3: every placement lies inside the canvas, checked and fallback alike.
C3_InsideCanvas ==
    \A a \in Placements :
        /\ 0 <= scattered_words[a].x
        /\ XEnd(scattered_words[a]) <= width
        /\ 0 <= scattered_words[a].y
        /\ scattered_words[a].y < height

\* C3 witness: a finished call with a checked and a fallback placement, one
\* of them ending at the right edge of the canvas.
C3_Witness ==
    /\ pc = "done"
    /\ fallback # {}
    /\ Checked # {}
    /\ \E a \in Placements : XEnd(scattered_words[a]) = width

\* C4: generate_with_density returns without failing for every canvas with
\* width >= 0 and height >= 0 and every vocabulary.
C4_NeverFails == pc # "panic"

\* Progress measure of one call: it decreases with every step taken.
Measure ==
    CASE pc = "start" -> 203 * (Len(word_pool) + 1)
      [] pc = "while" ->
             203 * (Len(selected_words) - i) + 2 * (100 - attempts) + 2
      [] pc = "fallback" -> 203 * (Len(selected_words) - i) + 1
      [] OTHER -> 0

\* C5: every call terminates (each step decreases a natural-number measure);
\* per sampled word at most 100 candidate positions are drawn and tested,
\* then at most one fallback position, so at most 101 draws per word and
\* 101 * (number of sampled words) in the call.
C5_BoundedDraws ==
    /\ [](/\ attempts <= 100
          /\ i <= Len(selected_words) + 1
          /\ pc = "while" => drawn <= 100
          /\ drawn <= 101
          /\ (Max(i, 1) - 1) * 101 + drawn <= 101 * Len(selected_words)
          /\ Measure >= 0)
    /\ [][Measure' < Measure]_vars

\* C5 witness: a word for which 100 candidates were drawn and all rejected.
C5_Witness ==
    /\ pc = "fallback"
    /\ ~placed
    /\ attempts = 100
    /\ drawn = 100

PoolSet == {word_pool[k] : k \in 1..Len(word_pool)}
NoDuplicates(seq) == \A a, b \in 1..Len(seq) : a # b => seq[a] # seq[b]

\* C6: given a vocabulary without duplicates, the placed words are pairwise
\* distinct members of the vocabulary.
C6_DistinctMembers ==
    NoDuplicates(word_pool) =>
        /\ \A a \in Placements : scattered_words[a].word \in PoolSet
        /\ \A a, b \in Placements :
               a # b => scattered_words[a].word # scattered_words[b].word

\* C6 witness: a finished call that placed as many words as the vocabulary has.
C6_Witness ==
    /\ pc = "done"
    /\ Len(word_pool) >= 3
    /\ Len(scattered_words) = Len(word_pool)

\* C7: in the output every sampled word of length <= width appears exactly
\* once, also when no collision-free position exists for it.
C7_EveryFittingWordOnce ==
    pc = "done" =>
        \A k \in 1..Len(selected_words) :
            Len(selected_words[k]) <= width =>
                Cardinality({a \in Placements :
                                scattered_words[a].word = selected_words[k]}) = 1

\* C7 witness: two words on a one-row canvas too narrow for both; the first
\* was placed by the check, the second (narrower than the canvas, so rejected
\* 100 times) overlaps it and came from the fallback.
C7_Witness ==
    /\ pc = "done"
    /\ height = 1
    /\ Len(scattered_words) = 2
    /\ fallback = {2}
    /\ Len(scattered_words[2].word) < width
    /\ Len(scattered_words[1].word) + 2 + Len(scattered_words[2].word) > width
    /\ scattered_words[2].x < XEnd(scattered_words[1])
    /\ scattered_words[1].x < XEnd(scattered_words[2])

\* C8: a sampled word longer than the canvas width never appears in the
\* output and no position is drawn for it; a 1x1 canvas with a vocabulary of
\* words of length >= 3 yields the empty placement sequence.
C8_TooWideDropped ==
    /\ \A a \in Placements : Len(scattered_words[a].word) <= width
    /\ (pc \in {"while", "fallback"} /\ Len(CurWord) > width) => drawn = 0
    /\ (pc = "done" /\ width = 1 /\ height = 1
            /\ \A k \in 1..Len(word_pool) : Len(word_pool[k]) >= 3)
         => scattered_words = <<>>

\* C8 witness: a finished call that sampled both a word wider than the canvas
\* and a word that fits, and returned only the latter.
C8_Witness ==
    /\ pc = "done"
    /\ \E k \in 1..Len(selected_words) : Len(selected_words[k]) > width
    /\ Len(scattered_words) = 1
    /\ Len(selected_words) = 2

(***************************************************************************)
(* Properties of WordBank (specification BankSpec).                        *)
(***************************************************************************)
VocabularyWords == {vocabulary[k] : k \in 1..Len(vocabulary)}

\* C9: after any sequence of add_words calls, every word of the vocabulary
\* (the set, and any Vec returned by get_words) has length >= 3 and is not in
\* the stop-word list.
C9_FilterInvariant ==
    \A w \in words \cup VocabularyWords : Len(w) >= 3 /\ w \notin STOP_WORDS

\* C9 witness: stop words and short words were added, and get_words
\* returned the two admissible ones.
C9_Witness ==
    /\ {"the", "be", "hi"} \subseteq added
    /\ Len(vocabulary) = 2
    /\ words = {"fox", "hello"}

AdmissibleAdded == {t \in added : Len(t) >= 3 /\ t \notin STOP_WORDS}

\* C10: the vocabulary holds each distinct admissible token ever added exactly
\* once, word_count is the number of such tokens, and a call that adds only
\* tokens already present leaves the vocabulary unchanged.
C10_SetInvariant ==
    /\ [](/\ words = AdmissibleAdded
          /\ word_count = Cardinality(AdmissibleAdded)
          /\ \A v \in get_words :
                 \A t \in AdmissibleAdded :
                     Cardinality({k \in 1..Len(v) : v[k] = t}) = 1)
    /\ [][(\A k \in 1..Len(batch') : batch'[k] \in words) => words' = words]_vars

\* C10 witness: a token already present was added again, twice in one call.
C10_Witness ==
    /\ batch = <<"fox", "fox">>
    /\ words = {"fox", "hello"}
    /\ word_count = 2

(***************************************************************************)
(* Properties of extract_words (specification ParseSpec).                  *)
(***************************************************************************)
\* C11: for every text t and every token w of extract_words(t),
\* extract_words(w) = <<w>>.
C11_TokenIdempotent ==
    parse.pc = "again" =>
        \A k \in 1..Len(parse.tokens) : parse.again[k] = <<parse.tokens[k]>>

\* The whitespace-separated pieces of a text, as pairs of first and last index.
PieceBounds(t) ==
    {p \in (1..Len(t)) \X (1..Len(t)) :
        /\ p[1] <= p[2]
        /\ \A k \in p[1]..p[2] : ~IsWhitespace(t[k])
        /\ p[1] = 1 \/ IsWhitespace(t[p[1] - 1])
        /\ p[2] = Len(t) \/ IsWhitespace(t[p[2] + 1])}

AlnumAt(t, p) == {k \in p[1]..p[2] : IsAlphanumeric(t[k])}

WordPieces(t) == {p \in PieceBounds(t) : AlnumAt(t, p) # {}}

\* The piece from its first to its last alphanumeric character, lowercased.
ExpectedToken(t, p) ==
    LET first == CHOOSE k \in AlnumAt(t, p) : \A m \in AlnumAt(t, p) : k <= m
        last == CHOOSE k \in AlnumAt(t, p) : \A m \in AlnumAt(t, p) : k >= m
    IN to_lowercase(SubSeq(t, first, last))

\* C12: extract_words returns, in input order, one token per whitespace-
\* separated piece that has an alphanumeric character: the piece without its
\* leading and trailing non-alphanumeric characters, lowercased, interior
\* characters kept; no token is empty.
C12_ExtractWords ==
    parse.pc # "text" =>
        LET t == parse.text
            P == WordPieces(t)
        IN /\ Len(parse.tokens) = Cardinality(P)
           /\ \A p \in P :
                  parse.tokens[Cardinality({q \in P : q[1] < p[1]}) + 1]
                      = ExpectedToken(t, p)
           /\ \A k \in 1..Len(parse.tokens) : parse.tokens[k] # <<>>

\* C12 witness: the text "A-a", one piece whose interior '-' is kept,
\* lowercased to "a-a".
C12_Witness ==
    /\ parse.pc = "tokens"
    /\ parse.text = <<65, 45, 97>>
    /\ parse.tokens = <<<<97, 45, 97>>>>

(***************************************************************************)
(* The fallback of generate_with_density (specification Spec).             *)
(***************************************************************************)
\* C20: a word is placed through the unchecked fallback only after 100
\* candidate positions for it were each drawn and rejected; no fitting word,
\* a word as long as the canvas is wide included, gets a fallback placement
\* after fewer than 100 rejected attempts.
C20_FallbackAfterAllAttempts ==
    (pc = "fallback" /\ ~placed /\ FallbackFits(CurWord) /\ height > 0) =>
        (attempts = max_attempts /\ drawn = max_attempts)

(***************************************************************************)
(* The density of the App (specification DensitySpec).                     *)
(***************************************************************************)
Abs(n) == IF n < 0 THEN -n ELSE n

\* x is an f32 and no f32 is nearer to the exact value e
NearestF32(x, e) ==
    /\ x % Ulp(x) = 0
    /\ 2 * Abs(x - e) <= Ulp(e)

\* x is an f32 and no f32 is nearer to an exact value of which lo is the
\* floor and hi the ceiling (the value is at least 2^-3, so Ulp is even)
NearestF32Between(x, lo, hi) ==
    /\ x % Ulp(x) = 0
    /\ x - (Ulp(lo) \div 2) <= lo
    /\ hi <= x + (Ulp(lo) \div 2)

\* floor of 5.9 in units: 5 + floor(0.9 * 2^27); 5.9 is no whole number of units
FloorOf5_9 == 5 * F32Unit + ((9 * F32Unit) \div 10)

\* C16: after any sequence of increase_density and decrease_density calls
\* with any bar widths, 0 included, from the initial 1.0, the density is
\* within [0.1, 6.0]; unless the clamp applies, a call changes it by exactly
\* the step 5.9 / max(bar_width, 1), in f32 arithmetic: the step is the f32
\* nearest to that quotient and the new density the f32 nearest to the old
\* density plus (minus) the step.
C16_DensityBoundsAndStep ==
    dens.pc = "run" =>
        LET step == density_per_pixel(dens.bar_width)
        IN /\ F32_0_1 <= dens.density /\ dens.density <= F32_6_0
           /\ NearestF32Between(DensitySpan, FloorOf5_9, FloorOf5_9 + 1)
           /\ LET n == Max(dens.bar_width, 1)
              IN NearestF32Between(step, DensitySpan \div n,
                                   (DensitySpan + n - 1) \div n)
           /\ dens.op = "increase" =>
                \/ dens.density = F32_6_0
                \/ /\ NearestF32(dens.density, dens.prev + step)
                   /\ dens.density > dens.prev
           /\ dens.op = "decrease" =>
                \/ dens.density = F32_0_1
                \/ /\ NearestF32(dens.density, dens.prev - step)
                   /\ dens.density < dens.prev

\* C16 witness: an increase that is not clamped and whose exact sum is not
\* an f32, so that the new density is the rounded sum
C16_Witness ==
    /\ dens.pc = "run"
    /\ dens.op = "increase"
    /\ dens.density < F32_6_0
    /\ dens.density # dens.prev + density_per_pixel(dens.bar_width)

(***************************************************************************)
(* Ingestion and the session (specification SessSpec).                     *)
(***************************************************************************)
\* The document main() handled last, while the input is being processed.
LastDoc == sess.docs[sess.k - 1]

Handling == sess.pc \in {"ingest", "check", "exit_error"}
                /\ sess.k > 1 /\ sess.k - 1 <= Len(sess.docs)

\* C13: ingestion is all-or-nothing per document: when parse_file fails for
\* a document no token of it is added; the vocabulary after the failure
\* equals the vocabulary before it.
C13_AllOrNothing ==
    (Handling /\ LastDoc.supported /\ LastDoc.fails) =>
        sess.bank = sess.before

\* C13 witness: a directory whose first document gave "fox" and whose second
\* document, holding "wonderful", failed
C13_Witness ==
    /\ sess.pc = "ingest"
    /\ sess.mode = "dir"
    /\ sess.k = 3
    /\ sess.docs[1] = [supported |-> TRUE, fails |-> FALSE, words |-> <<"fox">>]
    /\ sess.docs[2] = [supported |-> TRUE, fails |-> TRUE,
                       words |-> <<"wonderful", "the">>]
    /\ sess.bank = {"fox"}

\* The filtered words of the supported documents that could be read.
ReadableWords ==
    {w \in UNION {{sess.docs[n].words[j] : j \in 1..Len(sess.docs[n].words)} :
                     n \in {m \in 1..Len(sess.docs) :
                               sess.docs[m].supported /\ ~sess.docs[m].fails}} :
        ~is_stop_word(w)}

\* C14: in directory mode a document whose ingestion fails is skipped with a
\* warning and every other supported document is still ingested (when the
\* directory itself could be listed to its end); in single-file mode an
\* ingestion failure ends the session with an error before any placement is
\* generated.
C14_SkipOrFatal ==
    /\ (sess.pc = "check" /\ sess.mode = "dir") =>
          /\ sess.bank = ReadableWords
          /\ sess.warned = {n \in 1..Len(sess.docs) :
                               sess.docs[n].supported /\ sess.docs[n].fails}
          /\ sess.fatal = "none"
    /\ (sess.pc # "idle" /\ sess.mode = "file" /\ sess.k = 2
            /\ sess.docs # <<>> /\ sess.docs[1].supported /\ sess.docs[1].fails) =>
          /\ sess.pc = "exit_error"
          /\ sess.fatal = "parse"
          /\ sess.generate_calls = 0

\* C14 witness: the first document of a directory failed, the second one
\* was ingested after it
C14_Witness ==
    /\ sess.pc = "check"
    /\ sess.mode = "dir"
    /\ Len(sess.docs) = 2
    /\ sess.docs[1].supported /\ sess.docs[1].fails
    /\ sess.docs[2] = [supported |-> TRUE, fails |-> FALSE, words |-> <<"fox">>]
    /\ sess.warned = {1}
    /\ sess.bank = {"fox"}

\* C15: if the filtered vocabulary is empty after all documents were
\* processed the session ends with an error and generate_with_density is
\* never called; every call of generate_with_density happens after all
\* documents were processed and with a non-empty vocabulary.
C15_NoWordsNoGenerate ==
    sess.pc # "idle" =>
        /\ (sess.ingested /\ sess.pc = "check") => sess.k > Len(sess.docs)
        /\ (sess.ingested /\ sess.bank = {} /\ sess.pc # "check") =>
              /\ sess.pc = "exit_error"
              /\ sess.fatal = "no_words"
              /\ sess.generate_calls = 0
        /\ sess.generate_calls > 0 => (sess.ingested /\ sess.bank # {})

\* C15 witness: the only words read were stop words, and the session ended
C15_Witness ==
    /\ sess.pc = "exit_error"
    /\ sess.fatal = "no_words"
    /\ sess.ingested
    /\ sess.file_count > 0
    /\ \E n \in 1..Len(sess.docs) : ~sess.docs[n].fails /\ sess.docs[n].words = <<"the">>
    /\ sess.generate_calls = 0

\* C17: a re-roll calls generate_with_density with the session's current
\* density and replaces the whole previous placement sequence with the new
\* one, resetting the current index to 0 and the visited set to exactly {0}.
C17_RerollReplaces ==
    [][(sess.pc = "running" /\ sess'.rerolls # sess.rerolls) =>
          /\ sess'.generate_calls = sess.generate_calls + 1
          /\ sess'.generate_density = sess.app.density
          /\ sess'.app.density = sess.app.density
          /\ sess'.app.scattered_words = sess'.generated
          /\ sess'.app.selected_word_index = 0
          /\ sess'.app.highlighted_words = <<0>>]_vars

\* C17 witness: the second re-roll of a session, at a density other than
\* the initial one, returned two placements
C17_Witness ==
    /\ sess.pc = "running"
    /\ sess.last = "reroll"
    /\ sess.rerolls = 2
    /\ sess.app.density # F32Unit
    /\ sess.generate_density = sess.app.density
    /\ Len(sess.app.scattered_words) = 2

\* C18: between two re-rolls no session operation (select next or previous,
\* density change, highlight toggle, fullscreen toggle, resize, rendering)
\* changes the placement sequence, its order, or a placement's word or
\* coordinates.
C18_StableIndexing ==
    [][(sess.pc = "running" /\ sess'.rerolls = sess.rerolls) =>
          sess'.app.scattered_words = sess.app.scattered_words]_vars

\* C18 witness: after the terminal shrank, one of two placements is drawn at
\* a clamped column while its stored column is as generated
C18_Witness ==
    /\ sess.pc = "running"
    /\ sess.last = "resize"
    /\ Len(sess.app.scattered_words) = 2
    /\ \E f \in sess.frame :
          f.x < sess.app.scattered_words[f.index + 1].x

\* C19: with an empty placement sequence select_next_word and
\* select_prev_word complete without failure and rendering draws nothing.
C19_EmptyHandled ==
    (sess.pc # "idle" /\ sess.last \in {"next", "prev"}
         /\ Len(sess.app.scattered_words) = 0) =>
        (sess.pc = "running" /\ sess.frame = {})

(***************************************************************************)
(* The collision check against earlier placements (specification Spec).    *)
(***************************************************************************)
TightlyOverlap(p, q) ==
    /\ p.y = q.y
    /\ XEnd(p) + min_gap > q.x
    /\ p.x < XEnd(q) + min_gap

\* C21: a candidate accepted through the collision check does not tightly
\* overlap any word placed earlier in the same call, whether that word was
\* placed through the check or through the fallback: every checked placement
\* is conflict-free against all placements preceding it in the output.
C21_CheckedAgainstAllEarlier ==
    \A k \in Checked : \A j \in 1..(k - 1) :
        ~TightlyOverlap(scattered_words[k], scattered_words[j])

(***************************************************************************)
(* The word count (specification Spec).                                    *)
(***************************************************************************)
\* floor(n / d) for naturals n and d > 0, by its defining inequalities
FloorOf(n, d) == CHOOSE q \in 0..n : q * d <= n /\ n < (q + 1) * d

\* 80 x 24 cells, density 1.0, 3 words
CountExample ==
    /\ 48 * 40 <= 80 * 24 /\ 80 * 24 < 49 * 40
    /\ CountsFor(3, 48) = {3}

ProbeEntryIndices == 1..Len(probe.occupied)

\* The specified test on unbounded integers.
ConflictOnRow ==
    \E k \in ProbeEntryIndices :
        /\ probe.occupied[k][2] = probe.y
        /\ probe.x + Len(probe.word) + 2 > probe.occupied[k][1]
        /\ probe.x < probe.occupied[k][1] + probe.occupied[k][3] + 2

\* No span, padded by the gap, reaches beyond 65535.
SpansInRange ==
    /\ probe.x + Len(probe.word) + 2 < U16
    /\ \A k \in ProbeEntryIndices :
           probe.occupied[k][1] + probe.occupied[k][3] + 2 < U16

\* C23: is_overlapping_tight(x, y, word, occupied) returns true exactly when
\* some recorded entry (ox, oy, olen) has oy = y and x + len(word) + 2 > ox
\* and x < ox + olen + 2; recorded words on a different row never cause a
\* conflict, whatever their vertical distance.  (Stated for spans that stay
\* within the u16 range, the rows being arbitrary.)
C23_ExactlySameRowConflict ==
    (probe.pc \in {"returned", "panic"} /\ SpansInRange) =>
        /\ probe.pc = "returned"
        /\ (probe.result = "true") = ConflictOnRow

\* Arguments as the placement loop passes them: the candidate and every
\* recorded word end within some width <= 65535.
LoopArguments ==
    /\ probe.x + Len(probe.word) < U16
    /\ \A k \in ProbeEntryIndices :
           probe.occupied[k][1] + probe.occupied[k][3] < U16

\* C30: for every canvas width and height representable as u16 and every
\* word, the 16-bit unsigned arithmetic of the overlap test and the placement
\* loop (x + len, ox + olen, x_end + 2, ox_end + 2, width - len) never exceeds
\* 65535 or wraps, so the test's result equals the result over unbounded
\* integers.
C30_NoU16Overflow ==
    (probe.pc \in {"returned", "panic"} /\ LoopArguments) =>
        /\ \A k \in ProbeEntryIndices :
              (/\ probe.occupied[k][2] = probe.y
               /\ \A j \in 1..(k - 1) : probe.occupied[j][2] # probe.y) =>
                 ~SpansOverflow(probe.x, WordLen(probe.word),
                                probe.occupied[k][1], probe.occupied[k][3])
        /\ (probe.y < 32768 /\ \A k \in ProbeEntryIndices :
                                   probe.occupied[k][2] < 32768) =>
              /\ probe.pc = "returned"
              /\ (probe.result = "true") = ConflictOnRow

(***************************************************************************)
(* Markdown ingestion (specification MdSpec).                              *)
(***************************************************************************)
\* The positions of the text runs and inline code outside code blocks.
Included(events) ==
    {k \in 1..Len(events) :
        events[k].kind \in {"text", "code"} /\ ~OpenBefore(events, k)}

\* The texts at the positions of ks below n, in order, a space after each.
RECURSIVE Joined(_, _, _)
Joined(events, ks, n) ==
    IF n = 0 THEN <<>>
    ELSE Joined(events, ks, n - 1)
             \o (IF n \in ks THEN events[n].text \o <<32>> ELSE <<>>)

TokensOf(tokens) == {tokens[j] : j \in 1..Len(tokens)}

\* C24: the text of the text runs and inline code outside code blocks is
\* included, each run followed by one space, and the text of every event
\* between a code-block start and its end is excluded: no token that occurs
\* only inside a code block reaches the returned words, and the in-code-block
\* flag is false again after every closed block.
C24_CodeBlocksExcluded ==
    parse.pc \in {"events", "returned"} =>
        /\ parse.text_content =
               Joined(parse.events, Included(parse.events), parse.k - 1)
        /\ parse.in_code_block = OpenBefore(parse.events, parse.k)
        /\ (parse.k > 1 /\ parse.events[parse.k - 1].kind = "end_code") =>
               ~parse.in_code_block
        /\ parse.pc = "returned" =>
              /\ ~parse.in_code_block
              /\ TokensOf(parse.tokens) =
                    UNION {TokensOf(extract_words(parse.events[k].text)) :
                              k \in Included(parse.events)}

\* C24 witness: a text run, a code block whose line "1" occurs nowhere else,
\* and the returned words without "1"
C24_Witness ==
    /\ parse.pc = "returned"
    /\ Len(parse.events) = 4
    /\ parse.events[1] = [kind |-> "text", text |-> <<65, 45, 49>>]
    /\ parse.events[2].kind = "start_code"
    /\ parse.events[3] = [kind |-> "text", text |-> <<49>>]
    /\ parse.events[4].kind = "end_code"
    /\ parse.tokens = <<<<97, 45, 49>>>>

(***************************************************************************)
(* strip_html_tags (specification StripSpec).                              *)
(***************************************************************************)
\* Position k lies in a tag span: a '<' before it with no '>' in between.
InTagSpan(html, k) ==
    \E j \in 1..(k - 1) :
        /\ html[j] = 60
        /\ \A m \in (j + 1)..(k - 1) : html[m] # 62

\* The positions whose characters are emitted.
Emitted(html) ==
    {k \in 1..Len(html) : html[k] \notin {60, 62} /\ ~InTagSpan(html, k)}

RECURSIVE CharsAt(_, _, _)
CharsAt(html, ks, n) ==
    IF n = 0 THEN <<>>
    ELSE CharsAt(html, ks, n - 1) \o (IF n \in ks THEN <<html[n]>> ELSE <<>>)

\* C25: strip_html_tags emits, in input order, exactly the characters that
\* are neither '<' nor '>' and lie outside a tag span; its output holds no
\* '<' and no '>', and everything after an unclosed '<' is dropped.
C25_StripHtmlTags ==
    parse.pc \in {"chars", "stripped"} =>
        /\ parse.result = CharsAt(parse.html, Emitted(parse.html), parse.k - 1)
        /\ \A j \in 1..Len(parse.result) : parse.result[j] \notin {60, 62}
        /\ parse.pc = "stripped" =>
              \A j \in 1..Len(parse.html) :
                  (parse.html[j] = 60
                     /\ \A m \in (j + 1)..Len(parse.html) : parse.html[m] # 62)
                  => parse.result =
                        CharsAt(parse.html, Emitted(parse.html), j - 1)

\* C25 witness: "a> <a" followed by an unclosed tag: the stray '>' is
\* dropped and nothing after the last '<' is kept
C25_Witness ==
    /\ parse.pc = "stripped"
    /\ parse.html = <<97, 62, 32, 60, 97>>
    /\ parse.result = <<97, 32>>

(***************************************************************************)
(* The current index and the visited list (specification SessSpec).        *)
(***************************************************************************)
\* C26: in a session whose placement sequence is non-empty, after any
\* sequence of re-roll, select, density and toggle operations the current
\* index is less than the number of placements and is in the visited list,
\* and the visited list has no duplicates and holds only indices less than
\* the number of placements.
C26_IndexAndVisited ==
    (sess.pc # "idle" /\ Len(sess.app.scattered_words) > 0) =>
        LET visited == sess.app.highlighted_words
            placements == Len(sess.app.scattered_words)
        IN /\ sess.app.selected_word_index < placements
           /\ Contains(visited, sess.app.selected_word_index)
           /\ \A a, b \in 1..Len(visited) : visited[a] = visited[b] => a = b
           /\ \A a \in 1..Len(visited) : visited[a] < placements
           /\ Len(visited) <= placements

\* C26 witness: two placements, select next twice: the index wrapped to 0
\* and both indices are visited once
C26_Witness ==
    /\ sess.pc = "running"
    /\ sess.last = "next"
    /\ Len(sess.app.scattered_words) = 2
    /\ sess.app.selected_word_index = 0
    /\ sess.app.highlighted_words = <<0, 1>>

(***************************************************************************)
(* What a re-roll and the other keys leave alone (specification SessSpec). *)
(***************************************************************************)
\* C27: a re-roll changes only the placement sequence, the current index and
\* the visited list: density, fullscreen_mode, use_dimmed_current,
\* word_count and directory are unchanged; and a density increase or
\* decrease and a fullscreen toggle never call generate_with_density.
C27_RerollFrame ==
    [][sess.pc = "running" =>
          /\ sess'.generate_calls # sess.generate_calls =>
                /\ sess'.last = "reroll"
                /\ sess'.app.density = sess.app.density
                /\ sess'.app.fullscreen_mode = sess.app.fullscreen_mode
                /\ sess'.app.use_dimmed_current = sess.app.use_dimmed_current
                /\ sess'.app.word_count = sess.app.word_count
                /\ sess'.app.directory = sess.app.directory
          /\ (sess'.events # sess.events
                /\ sess'.last \in {"up", "down", "fullscreen"}) =>
                /\ sess'.generate_calls = sess.generate_calls
                /\ sess'.generated = sess.generated
                /\ sess'.app.scattered_words = sess.app.scattered_words]_vars

\* C27 witness: a re-roll in fullscreen mode with the dimmed selection at a
\* raised density kept all three, the word count and the directory
C27_Witness ==
    /\ sess.pc = "running"
    /\ sess.last = "reroll"
    /\ sess.rerolls = 1
    /\ sess.app.fullscreen_mode
    /\ sess.app.use_dimmed_current
    /\ sess.app.density > F32Unit
    /\ sess.app.word_count = Len(sess.word_pool)
    /\ sess.app.directory = sess.mode

(***************************************************************************)
(* Events that change nothing (specification SessSpec).                    *)
(***************************************************************************)
\* The session state: everything but the record of the last event and the
\* number of events read.
SessionState(s) == [s EXCEPT !.last = "none", !.events = 0]

\* C28: a key event that is no Press leaves the whole session state
\* unchanged; a Press of q, Q or Ctrl+C ends the loop, and after it no event
\* changes the session state; every other unbound key leaves the state
\* unchanged.
C28_IgnoredAndQuit ==
    [][/\ (sess.pc = "running" /\ sess'.events # sess.events
             /\ sess'.last \in {"ignored", "other"}) =>
              SessionState(sess') = SessionState(sess)
       /\ (sess.pc = "running" /\ sess'.events # sess.events
             /\ sess'.last = "quit") =>
              /\ sess'.pc = "exit_ok"
              /\ SessionState(sess') = SessionState([sess EXCEPT !.pc = "exit_ok"])
       /\ sess.pc = "exit_ok" => sess' = sess]_vars

\* C28 witness: a Release or Repeat event arrived after the user had
\* re-rolled and moved to the second word, and was ignored
C28_Witness ==
    /\ sess.pc = "running"
    /\ sess.last = "ignored"
    /\ sess.rerolls = 1
    /\ sess.app.selected_word_index = 1
    /\ sess.app.highlighted_words = <<0, 1>>
    /\ sess.frame = Frame(sess.app, sess.size)

(***************************************************************************)
(* The density bar of the sidebar (specification DensitySpec).             *)
(***************************************************************************)
\* C29: for every density reachable through increase_density and
\* decrease_density and every bar width, the filled width
\* floor((density - 0.1) / 5.9 * bar_width) is between 0 and bar_width, so
\* bar_width - filled_width does not underflow.
C29_FilledWidthInBar ==
    dens.pc # "idle" =>
        \A bar_width \in RenderBarWidths :
            /\ filled_width(dens.density, bar_width) >= 0
            /\ filled_width(dens.density, bar_width) <= bar_width

\* C29 witness: increases have taken the density to 6.0 and the bar is
\* filled completely, at a density whose ratio is the largest reachable
C29_Witness ==
    /\ dens.op = "increase"
    /\ dens.density = F32_6_0
    /\ dens.prev < F32_6_0
    /\ \A bar_width \in RenderBarWidths :
          filled_width(dens.density, bar_width) = bar_width

====
